---- MODULE Spec2Model ----
(***************************************************************************)
(* Model of the call-session lifecycle of src/orchestrator.js: the two     *)
(* webhook handlers (connect, terminate), the in-memory map activeCalls,   *)
(* and the remote calls the handlers await (edge: /webrtc/new and          *)
(* /webrtc/hangup; platform: pre_accept, accept, terminate).               *)
(*                                                                         *)
(* Node runs each handler on one thread: the code between two awaits is    *)
(* one atomic step, and handlers of different requests interleave at the   *)
(* awaits.  Each action below is one such step of one handler invocation   *)
(* (a "flow").                                                             *)
(***************************************************************************)
EXTENDS Integers, Sequences, FiniteSets

\* Number of webhook requests (handler invocations) in a run.
NumFlows == 3
\* Number of distinct call_id values the platform uses.
NumCalls == 2

\* A missing / falsy JavaScript value (undefined, '', absent field).
None == 0

Flows == 1..NumFlows
CallIds == 1..NumCalls
VARIABLES
    activeCalls,  \* the Map call_id -> { edgeSessionId }, kept as call_id -> edgeSessionId
    flow          \* per handler invocation: its locals, position and response

vars == <<activeCalls, flow>>

----------------------------------------------------------------------------
(* The Map activeCalls *)

MapHas(m, k) == k \in DOMAIN m

\* Map.prototype.get: undefined for a key that is not in the map.
MapGet(m, k) == IF k \in DOMAIN m THEN m[k] ELSE None

\* Variant of set that records nothing.
MapSetDropped(m, k, v) == m

\* Map.prototype.set: adds the key or overwrites its value.
MapSet(m, k, v) == [x \in DOMAIN m \cup {k} |-> IF x = k THEN v ELSE m[x]]

\* Variant of delete that removes nothing.
MapDeleteDropped(m, k) == m

\* Map.prototype.delete: no effect for a key that is not in the map.
MapDelete(m, k) == [x \in DOMAIN m \ {k} |-> m[x]]

----------------------------------------------------------------------------
(* Remote calls.  Every call a flow issues is appended to its list `calls` *)
(* with the argument that identifies the target and, once the call has     *)
(* returned, its result.                                                   *)

Call(op, arg) == [op |-> op, arg |-> arg, res |-> "pending"]

\* The call the flow is suspended at.
Last(f) == flow[f].calls[Len(flow[f].calls)]

Suspended(f) ==
    /\ flow[f].pc \in {"negotiate", "preAccept", "accept", "hangup", "terminate"}
    /\ Last(f).res = "pending"

\* The flow's list of calls with the pending one resolved to `res`.
Resolve(f, res) ==
    [flow[f].calls EXCEPT ![Len(flow[f].calls)].res = res]

IdleFlow ==
    [kind |-> "none", callId |-> None, sdp |-> None, pc |-> "idle",
     edgeSessionId |-> None, sdpAnswer |-> None, state |-> None,
     status |-> 0, calls |-> <<>>, prior |-> {}]

\* Requests arrive one after another; flow f is the f-th request received.
Arrives(f) ==
    /\ flow[f].pc = "idle"
    /\ \A g \in Flows : g < f => flow[g].pc # "idle"

\* The call ids the platform has used so far.  They are opaque, so they are
\* numbered in the order in which they first appear in a request.
UsedCallIds == {flow[g].callId : g \in Flows} \ {None}

KnownOrNext(callId) ==
    callId \in CallIds => \A c \in CallIds : c < callId => c \in UsedCallIds

\* History only: the kinds of handler that have already answered a request
\* for callId.
Finished(callId) ==
    {flow[g].kind : g \in {h \in Flows : flow[h].pc = "done" /\ flow[h].callId = callId}}

----------------------------------------------------------------------------
Init ==
    /\ activeCalls = <<>>
    /\ flow = [f \in Flows |-> IdleFlow]

----------------------------------------------------------------------------
(* POST /wa/calling/connect *)

\* Variant of the check below that does not look at the offer.
InvalidPayloadCallIdOnly(callId, sdp) == callId = None

\* if (!callId || !session || !session.sdp)
InvalidPayload(callId, sdp) == callId = None \/ sdp = None

\* Variants of the check below that test one field only.
MissingFieldsIdOnly(edgeSessionId, sdpAnswer) == edgeSessionId = None

MissingFieldsAnswerOnly(edgeSessionId, sdpAnswer) == sdpAnswer = None

\* if (!edgeSessionId || !sdpAnswer)
MissingFields(edgeSessionId, sdpAnswer) ==
    edgeSessionId = None \/ sdpAnswer = None

\* Variant of the catch block below that answers 200.
CatchAnswersOk(f) ==
    flow' = [flow EXCEPT ![f].pc = "done", ![f].status = 200,
                         ![f].calls = Resolve(f, "fail")]

\* catch (err) { res.sendStatus(500) } of either handler: the pending call,
\* if any, has failed.
Catch(f) ==
    flow' = [flow EXCEPT ![f].pc = "done", ![f].status = 500,
                         ![f].calls = Resolve(f, "fail")]

\* The request arrives; a malformed payload is answered 400, otherwise the
\* offer is posted to the edge and the handler awaits the answer.
ConnectWebhook(f, callId, sdp) ==
    /\ Arrives(f)
    /\ KnownOrNext(callId)
    /\ IF InvalidPayload(callId, sdp)
       THEN flow' = [flow EXCEPT ![f] =
                [IdleFlow EXCEPT !.kind = "connect", !.callId = callId,
                                 !.sdp = sdp,
                                 !.pc = "done", !.status = 400]]
       ELSE flow' = [flow EXCEPT ![f] =
                [IdleFlow EXCEPT !.kind = "connect", !.callId = callId,
                                 !.sdp = sdp,
                                 !.pc = "negotiate",
                                 !.calls = <<Call("negotiate", callId)>>]]
    /\ UNCHANGED activeCalls

\* axios.post(EDGE_API/webrtc/new) rejects.
NegotiateFails(f) ==
    /\ flow[f].kind = "connect" /\ flow[f].pc = "negotiate" /\ Suspended(f)
    /\ Catch(f)
    /\ UNCHANGED activeCalls

\* The mapping is recorded and pre_accept is posted to the platform.
RecordAndPreAccept(f, edgeSessionId, sdpAnswer) ==
    /\ activeCalls' = MapSet(activeCalls, flow[f].callId, edgeSessionId)
    /\ flow' = [flow EXCEPT ![f].pc = "preAccept",
                            ![f].edgeSessionId = edgeSessionId,
                            ![f].sdpAnswer = sdpAnswer,
                            ![f].calls = Append(Resolve(f, "ok"),
                                                Call("preAccept", flow[f].callId))]

\* axios.post(EDGE_API/webrtc/new) resolves.  hasId / hasAnswer say which
\* fields resp.data carries.  An edge that returns a session id has allocated
\* a session and gives it an identifier of its own; the identifiers are
\* opaque, so the session is named after the request (the flow) that
\* allocated it.
NegotiateReturns(f, hasId, hasAnswer) ==
    /\ flow[f].kind = "connect" /\ flow[f].pc = "negotiate" /\ Suspended(f)
    /\ LET edgeSessionId == IF hasId THEN f ELSE None
           sdpAnswer == IF hasAnswer THEN 1 ELSE None
       IN IF MissingFields(edgeSessionId, sdpAnswer)
          THEN /\ flow' = [flow EXCEPT ![f].pc = "done", ![f].status = 500,
                                       ![f].edgeSessionId = edgeSessionId,
                                       ![f].sdpAnswer = sdpAnswer,
                                       ![f].calls = Resolve(f, "ok")]
               /\ UNCHANGED activeCalls
          ELSE RecordAndPreAccept(f, edgeSessionId, sdpAnswer)

\* Variant of the step below that posts pre_accept a second time when the
\* first request fails.
PreAcceptReturnsRetry(f, ok) ==
    /\ flow[f].kind = "connect" /\ flow[f].pc = "preAccept" /\ Suspended(f)
    /\ IF ok
       THEN flow' = [flow EXCEPT ![f].pc = "accept",
                                 ![f].calls = Append(Resolve(f, "ok"),
                                                     Call("accept", flow[f].callId))]
       ELSE IF Len(flow[f].calls) < 3
            THEN flow' = [flow EXCEPT ![f].calls =
                     Append(Resolve(f, "fail"), Call("preAccept", flow[f].callId))]
            ELSE Catch(f)
    /\ UNCHANGED activeCalls

\* await preAccept(callId, sdpAnswer) returns or throws.
PreAcceptReturns(f, ok) ==
    /\ flow[f].kind = "connect" /\ flow[f].pc = "preAccept" /\ Suspended(f)
    /\ IF ok
       THEN flow' = [flow EXCEPT ![f].pc = "accept",
                                 ![f].calls = Append(Resolve(f, "ok"),
                                                     Call("accept", flow[f].callId))]
       ELSE Catch(f)
    /\ UNCHANGED activeCalls

\* await accept(callId) returns or throws.
AcceptReturns(f, ok) ==
    /\ flow[f].kind = "connect" /\ flow[f].pc = "accept" /\ Suspended(f)
    /\ IF ok
       THEN flow' = [flow EXCEPT ![f].pc = "done", ![f].status = 200,
                                 ![f].calls = Resolve(f, "ok")]
       ELSE Catch(f)
    /\ UNCHANGED activeCalls

----------------------------------------------------------------------------
(* POST /wa/calling/terminate *)

\* Variant of the check below that asks the edge to hang up unconditionally.
HasEdgeSessionAlways(state) == TRUE

\* if (state && state.edgeSessionId)
HasEdgeSession(state) == state # None

\* The request arrives (the platform's terminate event carries call_id): the
\* handler looks the call up and either asks the edge to hang up or goes
\* straight to the platform notification.
TerminateWebhook(f, callId) ==
    /\ Arrives(f)
    /\ KnownOrNext(callId)
    /\ LET state == MapGet(activeCalls, callId)
           started == [IdleFlow EXCEPT !.kind = "terminate", !.callId = callId,
                                       !.state = state,
                                       !.prior = Finished(callId)]
       IN IF HasEdgeSession(state)
          THEN flow' = [flow EXCEPT ![f] =
                   [started EXCEPT !.pc = "hangup",
                                   !.calls = <<Call("hangup", state)>>]]
          ELSE flow' = [flow EXCEPT ![f] =
                   [started EXCEPT !.pc = "terminate",
                                   !.calls = <<Call("terminate", callId)>>]]
    /\ UNCHANGED activeCalls

\* await axios.post(EDGE_API/webrtc/hangup) returns or throws.
HangupReturns(f, ok) ==
    /\ flow[f].kind = "terminate" /\ flow[f].pc = "hangup" /\ Suspended(f)
    /\ IF ok
       THEN /\ activeCalls' = MapDelete(activeCalls, flow[f].callId)
            /\ flow' = [flow EXCEPT ![f].pc = "terminate",
                                    ![f].calls = Append(Resolve(f, "ok"),
                                                 Call("terminate", flow[f].callId))]
       ELSE /\ Catch(f)
            /\ UNCHANGED activeCalls

\* Variant of the step below in which terminate() lets a failed request
\* through to the handler's catch.
TerminateReturnsThrows(f, ok) ==
    /\ flow[f].kind = "terminate" /\ flow[f].pc = "terminate" /\ Suspended(f)
    /\ IF ok
       THEN flow' = [flow EXCEPT ![f].pc = "done", ![f].status = 200,
                                 ![f].calls = Resolve(f, "ok")]
       ELSE Catch(f)
    /\ UNCHANGED activeCalls

\* await terminate(callId): terminate() catches a failed request itself, so
\* the handler answers 200 either way.
TerminateReturns(f, ok) ==
    /\ flow[f].kind = "terminate" /\ flow[f].pc = "terminate" /\ Suspended(f)
    /\ flow' = [flow EXCEPT ![f].pc = "done", ![f].status = 200,
                            ![f].calls = Resolve(f, IF ok THEN "ok" ELSE "fail")]
    /\ UNCHANGED activeCalls

----------------------------------------------------------------------------
Next ==
    \/ \E f \in Flows, callId \in CallIds \cup {None}, sdp \in {None, 1} :
           ConnectWebhook(f, callId, sdp)
    \/ \E f \in Flows : NegotiateFails(f)
    \/ \E f \in Flows, hasId \in BOOLEAN, hasAnswer \in BOOLEAN :
           NegotiateReturns(f, hasId, hasAnswer)
    \/ \E f \in Flows, ok \in BOOLEAN : PreAcceptReturns(f, ok)
    \/ \E f \in Flows, ok \in BOOLEAN : AcceptReturns(f, ok)
    \/ \E f \in Flows, callId \in CallIds : TerminateWebhook(f, callId)
    \/ \E f \in Flows, ok \in BOOLEAN : HangupReturns(f, ok)
    \/ \E f \in Flows, ok \in BOOLEAN : TerminateReturns(f, ok)

Spec == Init /\ [][Next]_vars

----------------------------------------------------------------------------
(* A remote call that never returns.  callWaba and the two axios.post calls *)
(* to the edge pass no timeout, and axios has none by default: the promise  *)
(* stays pending and nothing in the process resumes the awaiting handler.   *)
NeverReturns(f) ==
    /\ Suspended(f)
    /\ flow' = [flow EXCEPT ![f].calls = Resolve(f, "hung")]
    /\ UNCHANGED activeCalls

\* The steps a suspended handler f can still take.
Resumes(f) ==
    \/ NegotiateFails(f)
    \/ \E hasId \in BOOLEAN, hasAnswer \in BOOLEAN : NegotiateReturns(f, hasId, hasAnswer)
    \/ \E ok \in BOOLEAN : PreAcceptReturns(f, ok)
    \/ \E ok \in BOOLEAN : AcceptReturns(f, ok)
    \/ \E ok \in BOOLEAN : HangupReturns(f, ok)
    \/ \E ok \in BOOLEAN : TerminateReturns(f, ok)

NextHang ==
    \/ Next
    \/ \E f \in Flows : NeverReturns(f)

\* The handlers with remote calls that may hang.  Node runs every handler
\* whose awaited promise has settled, hence the weak fairness.
SpecHang ==
    /\ Init /\ [][NextHang]_vars
    /\ \A f \in Flows : WF_vars(Resumes(f))

----------------------------------------------------------------------------
(* Vocabulary of the properties *)

ConnectFlows == {f \in Flows : flow[f].kind = "connect"}
TerminateFlows == {f \in Flows : flow[f].kind = "terminate"}

\* The positions in f's list of calls at which it issued `op`.
Issued(f, op) == {i \in 1..Len(flow[f].calls) : flow[f].calls[i].op = op}

\* f has passed the payload check and is a connect flow.
Negotiating(f) == f \in ConnectFlows /\ Issued(f, "negotiate") # {}

\* f's negotiate returned both edge_session_id and sdp_answer.
NegotiateSucceeded(f) ==
    /\ Negotiating(f)
    /\ flow[f].calls[1].res = "ok"
    /\ flow[f].edgeSessionId # None /\ flow[f].sdpAnswer # None

\* f's negotiate was rejected, or its response lacked a field.
NegotiateFailed(f) ==
    /\ Negotiating(f)
    /\ \/ flow[f].calls[1].res = "fail"
       \/ /\ flow[f].calls[1].res = "ok"
          /\ (flow[f].edgeSessionId = None \/ flow[f].sdpAnswer = None)

\* A connect flow suspended at one of its three awaits.
InFlight(f) ==
    f \in ConnectFlows /\ flow[f].pc \in {"negotiate", "preAccept", "accept"}

\* This step is a step of flow f / the step in which f answers its request.
StepOf(f) == flow'[f] # flow[f]
Completes(f) == flow[f].pc # "done" /\ flow'[f].pc = "done"

----------------------------------------------------------------------------
\* C1: a connect that arrives while its callId is already in the registry is
\* rejected as a conflict: it is answered on arrival without having invoked
\* negotiate, and the registry is left as it was (an answered flow takes no
\* further step, so it never overwrites the entry either).
C1_ConflictRejected ==
    [][\A f \in Flows :
          (/\ flow[f].pc = "idle" /\ flow'[f].kind = "connect"
           /\ MapHas(activeCalls, flow'[f].callId)) =>
              /\ flow'[f].calls = <<>>
              /\ flow'[f].pc = "done"
              /\ activeCalls' = activeCalls]_vars

\* C2: within a connect flow preAccept is issued only after that call's
\* negotiate returned both fields, and accept only after that call's
\* preAccept returned successfully.
C2_Ordering ==
    \A f \in Flows : \A i \in 1..Len(flow[f].calls) :
        LET c == flow[f].calls[i] IN
        /\ c.op = "preAccept" =>
              /\ NegotiateSucceeded(f)
              /\ \E j \in 1..(i - 1) :
                    /\ flow[f].calls[j].op = "negotiate"
                    /\ flow[f].calls[j].arg = c.arg
                    /\ flow[f].calls[j].res = "ok"
        /\ c.op = "accept" =>
              \E j \in 1..(i - 1) :
                    /\ flow[f].calls[j].op = "preAccept"
                    /\ flow[f].calls[j].arg = c.arg
                    /\ flow[f].calls[j].res = "ok"

\* C2 witness: one connect flow went through accept, another stopped at a
\* failed preAccept.
C2_Witness ==
    /\ \E f \in ConnectFlows : flow[f].status = 200 /\ Issued(f, "accept") # {}
    /\ \E f \in ConnectFlows :
          /\ flow[f].pc = "done"
          /\ \E i \in Issued(f, "preAccept") : flow[f].calls[i].res = "fail"

\* C3: when negotiate succeeded and preAccept or accept fails, the flow has
\* asked the edge exactly once to hang up its session, and the registry holds
\* no entry for the call when the failure is reported.
C3_CleanupOnFailure ==
    [][\A f \in ConnectFlows :
          (NegotiateSucceeded(f) /\ Completes(f) /\ flow'[f].status = 500) =>
              /\ Cardinality({i \in 1..Len(flow'[f].calls) :
                     /\ flow'[f].calls[i].op = "hangup"
                     /\ flow'[f].calls[i].arg = flow[f].edgeSessionId}) = 1
              /\ ~MapHas(activeCalls', flow[f].callId)]_vars

\* C4: when a terminate flow that arrived after a connect flow for the same
\* callId had answered completes, and no connect flow for the callId is still
\* running, the registry holds no entry for the callId.
C4_NoLeak ==
    [][\A g \in TerminateFlows :
          (/\ Completes(g) /\ "connect" \in flow[g].prior
           /\ \A f \in ConnectFlows :
                 flow[f].callId = flow[g].callId => flow[f].pc = "done") =>
              ~MapHas(activeCalls', flow[g].callId)]_vars

\* C5: a terminate flow whose session carries an edgeSessionId and whose
\* hangup fails still removes the registry entry and reports success.
C5_HangupFailureAbsorbed ==
    [][\A g \in TerminateFlows :
          (/\ flow[g].state # None
           /\ Completes(g)
           /\ \E i \in 1..Len(flow'[g].calls) :
                 flow'[g].calls[i].op = "hangup" /\ flow'[g].calls[i].res = "fail") =>
              /\ ~MapHas(activeCalls', flow[g].callId)
              /\ flow'[g].status = 200]_vars

\* C6: of two terminate flows run one after the other for the same callId,
\* neither reports a failure, and the second issues no hangup: its only call
\* is the platform terminate.
C6_IdempotentTerminate ==
    \A h \in TerminateFlows :
        "terminate" \in flow[h].prior =>
            /\ \A g \in TerminateFlows :
                  (flow[g].callId = flow[h].callId /\ flow[g].pc = "done") =>
                      flow[g].status = 200
            /\ Issued(h, "hangup") = {}
            /\ \A i \in 1..Len(flow[h].calls) :
                  flow[h].calls[i].op = "terminate"

\* C7: a terminate flow for a callId without a registry entry issues no
\* hangup, issues the platform terminate for the callId, reports success, and
\* none of its steps changes the registry.
C7_UnknownCall ==
    /\ [](\A g \in TerminateFlows :
            flow[g].state = None =>
                /\ Issued(g, "hangup") = {}
                /\ Len(flow[g].calls) = 1
                /\ flow[g].calls[1].op = "terminate"
                /\ flow[g].calls[1].arg = flow[g].callId
                /\ flow[g].pc = "done" => flow[g].status = 200)
    /\ [][\A g \in Flows :
            (StepOf(g) /\ flow'[g].kind = "terminate" /\ flow'[g].state = None) =>
                activeCalls' = activeCalls]_vars

\* C7 witness: a terminate for an unknown call has answered 200 although the
\* platform notification failed.
C7_Witness ==
    \E g \in TerminateFlows :
        /\ flow[g].state = None /\ flow[g].pc = "done" /\ flow[g].status = 200
        /\ flow[g].calls[1].res = "fail"

\* C8: once a terminate flow that arrived during a connect flow for the same
\* callId has completed, no later step of that connect flow leaves its
\* session in the registry.
C8_NoResurrection ==
    [][\A f \in ConnectFlows :
          (/\ InFlight(f) /\ StepOf(f)
           /\ \E g \in TerminateFlows :
                 g > f /\ flow[g].callId = flow[f].callId /\ flow[g].pc = "done") =>
              MapGet(activeCalls', flow[f].callId) # f]_vars

\* C9: once a terminate flow that arrived during a connect flow for the same
\* callId has completed, the connect flow's next step reports failure, issues
\* no further preAccept or accept, and the edge session a successful
\* negotiate allocated for it has been hung up.
C9_TerminateWinsRace ==
    [][\A f \in ConnectFlows :
          (/\ InFlight(f) /\ StepOf(f)
           /\ \E g \in TerminateFlows :
                 g > f /\ flow[g].callId = flow[f].callId /\ flow[g].pc = "done") =>
              /\ flow'[f].pc = "done" /\ flow'[f].status = 500
              /\ \A i \in 1..Len(flow'[f].calls) :
                    (i > Len(flow[f].calls)) =>
                        flow'[f].calls[i].op \notin {"preAccept", "accept"}
              /\ (flow'[f].edgeSessionId # None /\ flow'[f].sdpAnswer # None) =>
                    \E h \in Flows : \E i \in 1..Len(flow'[h].calls) :
                        /\ flow'[h].calls[i].op = "hangup"
                        /\ flow'[h].calls[i].arg = flow'[f].edgeSessionId]_vars

C11_MalformedRejected ==
    /\ [](\A f \in ConnectFlows :
            (flow[f].callId = None \/ flow[f].sdp = None) =>
                /\ flow[f].pc = "done" /\ flow[f].status = 400
                /\ flow[f].calls = <<>>)
    /\ [][\A f \in Flows :
            (/\ StepOf(f) /\ flow'[f].kind = "connect"
             /\ (flow'[f].callId = None \/ flow'[f].sdp = None)) =>
                activeCalls' = activeCalls]_vars

\* C11 witness: one connect without call_id and one without an offer have
\* been answered while the registry holds a session.
C11_Witness ==
    /\ \E f \in ConnectFlows : flow[f].callId = None /\ flow[f].status = 400
    /\ \E f \in ConnectFlows :
          flow[f].callId # None /\ flow[f].sdp = None /\ flow[f].status = 400
    /\ \E c \in CallIds : MapHas(activeCalls, c)

C13_TerminateFailureAbsorbed ==
    [][\A g \in TerminateFlows :
          (/\ flow[g].pc = "terminate" /\ StepOf(g)
           /\ flow'[g].calls[Len(flow'[g].calls)].res = "fail") =>
              /\ flow'[g].pc = "done" /\ flow'[g].status = 200
              /\ activeCalls' = activeCalls]_vars

\* C13 witness: a terminate flow hung up its session, its platform terminate
\* failed, and it answered 200.
C13_Witness ==
    \E g \in TerminateFlows :
        /\ flow[g].state # None /\ flow[g].pc = "done" /\ flow[g].status = 200
        /\ Len(flow[g].calls) = 2
        /\ flow[g].calls[2].op = "terminate" /\ flow[g].calls[2].res = "fail"

\* C14: every terminate flow that has answered has issued the platform
\* terminate for its callId, whether or not a session existed and whatever
\* the outcome of the hangup.
C14_AlwaysNotifies ==
    \A g \in TerminateFlows :
        flow[g].pc = "done" =>
            \E i \in Issued(g, "terminate") : flow[g].calls[i].arg = flow[g].callId

\* C15: in a terminate flow whose session carries an edgeSessionId, hangup
\* is issued while the registry entry is still there, the entry is removed
\* only after the hangup was issued, and the platform terminate is issued
\* only once the entry is gone.
C15_TerminateOrder ==
    [][\A g \in Flows :
          (StepOf(g) /\ flow'[g].kind = "terminate" /\ flow'[g].state # None) =>
              LET before == flow[g].calls
                  after == flow'[g].calls
                  new == {i \in 1..Len(after) : i > Len(before)}
              IN /\ \A i \in new : after[i].op = "hangup" =>
                       /\ after[i].arg = flow'[g].state
                       /\ MapHas(activeCalls, flow'[g].callId)
                       /\ activeCalls' = activeCalls
                 /\ activeCalls' # activeCalls =>
                       /\ \E i \in 1..Len(before) : before[i].op = "hangup"
                       /\ activeCalls' = MapDelete(activeCalls, flow[g].callId)
                 /\ \A i \in new : after[i].op = "terminate" =>
                       /\ \E j \in 1..Len(before) : before[j].op = "hangup"
                       /\ ~MapHas(activeCalls', flow'[g].callId)]_vars

\* C15 witness: a terminate flow has hung up, removed the entry and issued
\* the platform terminate.
C15_Witness ==
    \E g \in TerminateFlows :
        /\ flow[g].state # None /\ flow[g].pc = "terminate"
        /\ flow[g].calls[1].op = "hangup" /\ flow[g].calls[1].res = "ok"
        /\ ~MapHas(activeCalls, flow[g].callId)

\* The edge sessions allocated for callId c by a successful negotiate that no
\* flow has asked the edge to hang up.
LiveSessions(c) ==
    {f \in ConnectFlows :
        /\ flow[f].callId = c /\ NegotiateSucceeded(f)
        /\ ~\E h \in Flows : \E i \in Issued(h, "hangup") :
               flow[h].calls[i].arg = flow[f].edgeSessionId}

\* C16: at every instant each callId has at most one live edge session, and
\* every live edge session is the one the registry holds for its callId.
C16_NoOrphanedSession ==
    \A c \in CallIds :
        /\ Cardinality(LiveSessions(c)) <= 1
        /\ \A f \in LiveSessions(c) :
              MapGet(activeCalls, c) = flow[f].edgeSessionId

\* C17: every connect or terminate flow that has started eventually answers
\* its request, also when a remote call it awaits never returns.
C17_EveryFlowCompletes ==
    \A f \in Flows : (flow[f].pc # "idle") ~> (flow[f].pc = "done")

\* C18: no flow issues the same remote call twice: a connect flow issues
\* negotiate, preAccept and accept at most once each, a terminate flow hangup
\* and terminate at most once each.
C18_NoRetry ==
    \A f \in Flows :
        \A j \in 2..Len(flow[f].calls) : \A i \in 1..(j - 1) :
            flow[f].calls[i].op # flow[f].calls[j].op

\* C18 witness: a connect flow has answered after a failed preAccept and a
\* terminate flow after a failed hangup, each failed call issued once.
C18_Witness ==
    /\ \E f \in ConnectFlows :
          /\ flow[f].pc = "done" /\ Len(flow[f].calls) = 2
          /\ flow[f].calls[2].op = "preAccept" /\ flow[f].calls[2].res = "fail"
    /\ \E g \in TerminateFlows :
          /\ flow[g].pc = "done" /\ Len(flow[g].calls) = 1
          /\ flow[g].calls[1].op = "hangup" /\ flow[g].calls[1].res = "fail"

\* C19: over the whole run the edge is asked at most once to hang up any one
\* edge session.
C19_HangupOnce ==
    \A e \in Flows :
        Cardinality({p \in Flows \X (1..2) :
            /\ p[2] <= Len(flow[p[1]].calls)
            /\ flow[p[1]].calls[p[2]].op = "hangup"
            /\ flow[p[1]].calls[p[2]].arg = e}) <= 1

\* f's call `op` has returned successfully.
Succeeded(f, op) == \E i \in Issued(f, op) : flow[f].calls[i].res = "ok"

\* C20: a connect flow with a well-formed event answers 200 exactly when its
\* negotiate returned both fields and its preAccept and accept succeeded, and
\* 500 otherwise; a flow answers once, and its answer never changes.
C20_ConnectOutcome ==
    /\ [](\A f \in Flows :
            /\ (flow[f].pc = "done") <=> (flow[f].status # 0)
            /\ (f \in ConnectFlows /\ flow[f].pc = "done"
                   /\ flow[f].callId # None /\ flow[f].sdp # None) =>
                  /\ flow[f].status \in {200, 500}
                  /\ (flow[f].status = 200) <=>
                        /\ NegotiateSucceeded(f)
                        /\ Succeeded(f, "preAccept")
                        /\ Succeeded(f, "accept"))
    /\ [][\A f \in Flows : flow[f].status # 0 => flow'[f] = flow[f]]_vars

\* C20 witness: one connect flow answered 200 and another answered 500
\* after its accept failed.
C20_Witness ==
    /\ \E f \in ConnectFlows : flow[f].status = 200
    /\ \E f \in ConnectFlows :
          /\ flow[f].status = 500
          /\ \E i \in Issued(f, "accept") : flow[f].calls[i].res = "fail"

====
